---- MODULE Spec2Model ----
(***************************************************************************)
(* Model of xonsh/xoreutils/_posix.c: the two uptime entry points           *)
(* (_uptime_posix, _uptime_osx) and the elapsed-time computation            *)
(* (_calc_uptime), together with the operating-system state they read:      *)
(* the utmpx accounting database, the kern.boottime kernel parameter and    *)
(* the clock.                                                               *)
(*                                                                          *)
(* Integers wider than TLC's are kept as two limbs, hi * 2^16 + lo, so the  *)
(* 32-bit (unsigned) cast of line 35 keeps its real modulus.  A C double is *)
(* kept as the exact sum  whole + micro / 1000000  (floating-point rounding *)
(* of that sum is not modelled).                                            *)
(***************************************************************************)
EXTENDS Integers, Sequences, FiniteSets, TLC

VARIABLES
    platform,   \* "apple" when __APPLE__ is defined at build time, else "other"
    boottime,   \* the time the system booted, as the OS recorded it
    kern,       \* state of the kern.boottime kernel parameter
    utdb,       \* the utmpx accounting database: a sequence of records
    utOpen,     \* TRUE while libc holds the accounting database open
    utPos,      \* libc's position in the open database (records read so far)
    utBuf,      \* libc's static struct utmpx that getutxid returns a pointer to
    pc,         \* per calling thread: position in the call
    entry,      \* per thread: the function that was called
    res,        \* per thread: _uptime_posix's res pointer
    bt,         \* per thread: the boot timestamp handed to _calc_uptime
    tv,         \* per thread: _calc_uptime's local tv
    ret,        \* per thread: the value the call returned
    gt,         \* per thread: what gettimeofday answered in this call
    qlog,       \* per thread: the OS queries this call made, with their outcomes
    clean       \* per thread: the accounting section ran without interference

vars == <<platform, boottime, kern, utdb, utOpen, utPos, utBuf,
          pc, entry, res, bt, tv, ret, gt, qlog, clean>>

osvars == <<platform, boottime, kern, utdb>>

-----------------------------------------------------------------------------
(* Bounds of the model *)

MaxSec == 1        \* second components 0..MaxSec, and 2^32 + 0..MaxSec
MaxUsecIdx == 2    \* microsecond components k * 250000 for k in 0..MaxUsecIdx, and 999999
MaxRecs == 2       \* records in the accounting database

Threads == {"t1", "t2"}

-----------------------------------------------------------------------------
(* C integers *)

USEC_PER_SEC == 1000000

LimbBase == 2^16

UnsignedHiMod == 2^(32 - 16)

Big(h, l) == [hi |-> h, lo |-> l]

BigOf(n) == [hi |-> n \div LimbBase, lo |-> n % LimbBase]

BigAdd(a, b) ==
    LET l == a.lo + b.lo
    IN  [hi |-> a.hi + b.hi + (l \div LimbBase), lo |-> l % LimbBase]

BigSub(a, b) ==
    LET l == a.lo - b.lo
    IN  [hi |-> a.hi - b.hi + (l \div LimbBase), lo |-> l % LimbBase]

BigLess(a, b) == a.hi < b.hi \/ (a.hi = b.hi /\ a.lo < b.lo)

\* (unsigned)x for a signed x: x modulo 2^32
ToUnsigned(a) == [hi |-> a.hi % UnsignedHiMod, lo |-> a.lo]

\* a double, kept exactly: whole + micro / 1000000.0
Double(w, m) == [whole |-> w, micro |-> m]

MinusOne == Double(BigOf(-1), BigOf(0))

None == [kind |-> "None"]

NoRet == [kind |-> "NoRet"]

-----------------------------------------------------------------------------
(* struct timeval and the values the OS supplies *)

Timeval(s, u) == [tv_sec |-> s, tv_usec |-> u]

SecValues ==
    {Big(0, s) : s \in 0..MaxSec} \cup {Big(LimbBase, s) : s \in 0..MaxSec}

UsecValues ==
    {k * (USEC_PER_SEC \div 4) : k \in 0..MaxUsecIdx} \cup {USEC_PER_SEC - 1}

Timevals == {Timeval(s, u) : s \in SecValues, u \in UsecValues}

NoTime == [kind |-> "NoTime"]

GettimeofdayFailed == [kind |-> "failed"]

-----------------------------------------------------------------------------
(* struct utmpx and the accounting database *)

BOOT_TIME == "BOOT_TIME"

USER_PROCESS == "USER_PROCESS"

Utmpx(type, t) == [ut_type |-> type, ut_tv |-> t]

ZeroUtmpx == Utmpx("EMPTY", Timeval(BigOf(0), 0))

\* a login record is stamped one second after the boot record
LoginTime(b) == Timeval(BigAdd(b.tv_sec, BigOf(1)), b.tv_usec)

UtShapes == UNION {[1..n -> {BOOT_TIME, USER_PROCESS}] : n \in 0..MaxRecs}

UtDatabase(shape, b) ==
    [i \in 1..Len(shape) |->
        IF shape[i] = BOOT_TIME THEN Utmpx(BOOT_TIME, b)
                                ELSE Utmpx(USER_PROCESS, LoginTime(b))]

\* indexes after position p of the records of the wanted type
MatchesAfter(db, p, type) == {i \in (p + 1)..Len(db) : db[i].ut_type = type}

Min(S) == CHOOSE i \in S : \A j \in S : i <= j

-----------------------------------------------------------------------------
(* The initial state: a build, a booted system, nobody calling *)

Init ==
    /\ platform \in {"apple", "other"}
    /\ boottime \in Timevals
    /\ kern \in (IF platform = "apple" THEN {"ok", "absent", "oversize"}
                                       ELSE {"absent"})
    /\ \E shape \in UtShapes : utdb = UtDatabase(shape, boottime)
    /\ utOpen = FALSE
    /\ utPos = 0
    /\ utBuf = ZeroUtmpx
    /\ pc = [t \in Threads |-> "idle"]
    /\ entry = [t \in Threads |-> "none"]
    /\ res = [t \in Threads |-> "NULL"]
    /\ bt = [t \in Threads |-> NoTime]
    /\ tv = [t \in Threads |-> NoTime]
    /\ ret = [t \in Threads |-> NoRet]
    /\ gt = [t \in Threads |-> NoTime]
    /\ qlog = [t \in Threads |-> <<>>]
    /\ clean = [t \in Threads |-> TRUE]

\* a thread is outside any call
Outside(t) == pc[t] = "idle"

\* the interpreter lock: an extension function that never releases it runs,
\* and hands its result to the interpreter, while no other thread is inside one
HoldsGIL(t) == \A u \in Threads \ {t} : Outside(u)

Query(name, ok) == [query |-> name, ok |-> ok]

\* the locals of a call that is starting
Enter(t, fn, first) ==
    /\ Outside(t)
    /\ pc' = [pc EXCEPT ![t] = first]
    /\ entry' = [entry EXCEPT ![t] = fn]
    /\ res' = [res EXCEPT ![t] = "NULL"]
    /\ tv' = [tv EXCEPT ![t] = NoTime]
    /\ ret' = [ret EXCEPT ![t] = NoRet]
    /\ gt' = [gt EXCEPT ![t] = NoTime]
    /\ qlog' = [qlog EXCEPT ![t] = <<>>]
    /\ clean' = [clean EXCEPT ![t] = TRUE]

\* a step of another thread inside the accounting database disturbs every
\* thread that is between its own record query and its own close
Disturb(t) ==
    [u \in Threads |->
        IF u # t /\ pc[u] \in {"memcpy", "endutxent", "endutxent_null"}
        THEN FALSE ELSE clean[u]]

-----------------------------------------------------------------------------
(* _calc_uptime, lines 19-36 *)

\* the subtraction with the borrowed second forgotten (no tv.tv_sec--)
calc_subtract_noborrow(now, b) ==
    IF now.tv_usec < b.tv_usec
    THEN Timeval(BigSub(now.tv_sec, b.tv_sec),
                 USEC_PER_SEC - b.tv_usec + now.tv_usec)
    ELSE Timeval(BigSub(now.tv_sec, b.tv_sec), now.tv_usec - b.tv_usec)

\* the subtraction with the two microsecond components swapped in the borrow
calc_subtract_swapped(now, b) ==
    IF now.tv_usec < b.tv_usec
    THEN Timeval(BigSub(BigSub(now.tv_sec, BigOf(1)), b.tv_sec),
                 USEC_PER_SEC - now.tv_usec + b.tv_usec)
    ELSE Timeval(BigSub(now.tv_sec, b.tv_sec), now.tv_usec - b.tv_usec)

\* the subtraction with the second borrowed but the microseconds not carried
calc_subtract_nocarry(now, b) ==
    IF now.tv_usec < b.tv_usec
    THEN Timeval(BigSub(BigSub(now.tv_sec, BigOf(1)), b.tv_sec),
                 now.tv_usec - b.tv_usec)
    ELSE Timeval(BigSub(now.tv_sec, b.tv_sec), now.tv_usec - b.tv_usec)

\* lines 27-33: subtract boot time from current time
calc_subtract(now, b) ==
    IF now.tv_usec < b.tv_usec
    THEN Timeval(BigSub(BigSub(now.tv_sec, BigOf(1)), b.tv_sec),
                 USEC_PER_SEC - b.tv_usec + now.tv_usec)
    ELSE Timeval(BigSub(now.tv_sec, b.tv_sec), now.tv_usec - b.tv_usec)

\* the conversion without the (unsigned) cast of the seconds
calc_result_signed(d) == Double(d.tv_sec, ToUnsigned(BigOf(d.tv_usec)))

\* line 35: (unsigned)tv.tv_sec + (unsigned)tv.tv_usec / 1000000.0
calc_result(d) == Double(ToUnsigned(d.tv_sec), ToUnsigned(BigOf(d.tv_usec)))

\* line 23: what _calc_uptime returns when gettimeofday fails
calc_failure == MinusOne

\* the whole function, for a given answer of gettimeofday
calc_uptime(b, answer) ==
    IF answer = GettimeofdayFailed THEN calc_failure
    ELSE calc_result(calc_subtract(answer, b))

\* a direct call of _calc_uptime(bt)
Call_calc_uptime(t, b) ==
    /\ Enter(t, "_calc_uptime", "gettimeofday")
    /\ bt' = [bt EXCEPT ![t] = b]
    /\ UNCHANGED <<osvars, utOpen, utPos, utBuf>>

\* lines 22-24: gettimeofday(&tv, NULL); on failure return -1, which the
\* entry points hand to Py_BuildValue("d", ...) like any other result
calc_gettimeofday(t) ==
    /\ pc[t] = "gettimeofday"
    /\ \E answer \in Timevals \cup {GettimeofdayFailed} :
        /\ gt' = [gt EXCEPT ![t] = answer]
        /\ qlog' = [qlog EXCEPT ![t] =
                        Append(@, Query("gettimeofday", answer # GettimeofdayFailed))]
        /\ IF answer = GettimeofdayFailed
           THEN /\ ret' = [ret EXCEPT ![t] = calc_failure]
                /\ pc' = [pc EXCEPT ![t] = "done"]
                /\ tv' = tv
           ELSE /\ tv' = [tv EXCEPT ![t] = answer]
                /\ pc' = [pc EXCEPT ![t] = "subtract"]
                /\ ret' = ret
    /\ UNCHANGED <<osvars, utOpen, utPos, utBuf, entry, res, bt, clean>>

\* lines 27-35, and the caller's Py_BuildValue("d", ...): the subtraction and
\* the conversion of the difference work on the locals alone
calc_subtract_return(t) ==
    /\ pc[t] = "subtract"
    /\ tv' = [tv EXCEPT ![t] = calc_subtract(tv[t], bt[t])]
    /\ ret' = [ret EXCEPT ![t] = calc_result(calc_subtract(tv[t], bt[t]))]
    /\ pc' = [pc EXCEPT ![t] = "done"]
    /\ UNCHANGED <<osvars, utOpen, utPos, utBuf, entry, res, bt, gt, qlog, clean>>

\* the call is over: the interpreter has the result and the locals are gone
Py_return(t) ==
    /\ pc[t] = "done"
    /\ pc' = [pc EXCEPT ![t] = "idle"]
    /\ entry' = [entry EXCEPT ![t] = "none"]
    /\ res' = [res EXCEPT ![t] = "NULL"]
    /\ bt' = [bt EXCEPT ![t] = NoTime]
    /\ tv' = [tv EXCEPT ![t] = NoTime]
    /\ ret' = [ret EXCEPT ![t] = NoRet]
    /\ gt' = [gt EXCEPT ![t] = NoTime]
    /\ qlog' = [qlog EXCEPT ![t] = <<>>]
    /\ clean' = [clean EXCEPT ![t] = TRUE]
    /\ UNCHANGED <<osvars, utOpen, utPos, utBuf>>

-----------------------------------------------------------------------------
(* _uptime_osx, lines 38-62 *)

Call_uptime_osx(t) ==
    /\ Enter(t, "_uptime_osx", IF platform = "apple" THEN "sysctlbyname" ELSE "stub")
    /\ bt' = [bt EXCEPT ![t] = NoTime]
    /\ UNCHANGED <<osvars, utOpen, utPos, utBuf>>

\* the query with its return value ignored
osx_sysctlbyname_unchecked(t) ==
    /\ pc[t] = "sysctlbyname"
    /\ qlog' = [qlog EXCEPT ![t] = Append(@, Query("sysctlbyname", kern = "ok"))]
    /\ bt' = [bt EXCEPT ![t] = boottime]
    /\ pc' = [pc EXCEPT ![t] = "gettimeofday"]
    /\ UNCHANGED <<osvars, utOpen, utPos, utBuf, entry, res, tv, ret, gt, clean>>

\* lines 50-54: sysctlbyname("kern.boottime", &bt, &len, NULL, 0)
osx_sysctlbyname(t) ==
    /\ pc[t] = "sysctlbyname"
    /\ qlog' = [qlog EXCEPT ![t] = Append(@, Query("sysctlbyname", kern = "ok"))]
    /\ IF kern # "ok"
       THEN /\ ret' = [ret EXCEPT ![t] = None]
            /\ pc' = [pc EXCEPT ![t] = "done"]
            /\ bt' = bt
       ELSE /\ bt' = [bt EXCEPT ![t] = boottime]
            /\ pc' = [pc EXCEPT ![t] = "gettimeofday"]
            /\ ret' = ret
    /\ UNCHANGED <<osvars, utOpen, utPos, utBuf, entry, res, tv, gt, clean>>

\* lines 58-61: the build without __APPLE__
osx_stub(t) ==
    /\ pc[t] = "stub"
    /\ ret' = [ret EXCEPT ![t] = None]
    /\ pc' = [pc EXCEPT ![t] = "done"]
    /\ UNCHANGED <<osvars, utOpen, utPos, utBuf, entry, res, bt, tv, gt, qlog, clean>>

-----------------------------------------------------------------------------
(* _uptime_posix, lines 65-84 *)

Call_uptime_posix(t) ==
    /\ Enter(t, "_uptime_posix", "getutxid")
    /\ bt' = [bt EXCEPT ![t] = NoTime]
    /\ UNCHANGED <<osvars, utOpen, utPos, utBuf>>

\* line 76: res = getutxid(&id) with id.ut_type = BOOT_TIME.  getutxid opens
\* the database when it is not open, searches forward from the current
\* position, reads each record into its static buffer and returns a pointer
\* to that buffer, or NULL at the end of the database.
posix_getutxid(t) ==
    /\ pc[t] = "getutxid"
    /\ LET from == IF utOpen THEN utPos ELSE 0
           hits == MatchesAfter(utdb, from, BOOT_TIME)
           found == hits # {}
           upto == IF found THEN Min(hits) ELSE Len(utdb)
       IN  /\ utOpen' = TRUE
           /\ utPos' = upto
           /\ utBuf' = IF upto > from THEN utdb[upto] ELSE utBuf
           /\ res' = [res EXCEPT ![t] = IF found THEN "utBuf" ELSE "NULL"]
           /\ pc' = [pc EXCEPT ![t] = IF found THEN "memcpy" ELSE "endutxent_null"]
           /\ qlog' = [qlog EXCEPT ![t] = Append(@, Query("getutxid", found))]
           /\ clean' = [Disturb(t) EXCEPT ![t] = ~utOpen]
    /\ UNCHANGED <<osvars, entry, bt, tv, ret, gt>>

\* the not-found path returning 0.0 instead of None
posix_endutxent_null_zero(t) ==
    /\ pc[t] = "endutxent_null"
    /\ utOpen' = FALSE
    /\ utPos' = 0
    /\ ret' = [ret EXCEPT ![t] = Double(BigOf(0), BigOf(0))]
    /\ pc' = [pc EXCEPT ![t] = "done"]
    /\ clean' = Disturb(t)
    /\ UNCHANGED <<osvars, utBuf, entry, res, bt, tv, gt, qlog>>

\* the not-found path without its endutxent()
posix_endutxent_null_leak(t) ==
    /\ pc[t] = "endutxent_null"
    /\ ret' = [ret EXCEPT ![t] = None]
    /\ pc' = [pc EXCEPT ![t] = "done"]
    /\ UNCHANGED <<osvars, utOpen, utPos, utBuf, entry, res, bt, tv, gt, qlog, clean>>

\* lines 77-78: no record: endutxent(); Py_RETURN_NONE
posix_endutxent_null(t) ==
    /\ pc[t] = "endutxent_null"
    /\ utOpen' = FALSE
    /\ utPos' = 0
    /\ ret' = [ret EXCEPT ![t] = None]
    /\ pc' = [pc EXCEPT ![t] = "done"]
    /\ clean' = Disturb(t)
    /\ UNCHANGED <<osvars, utBuf, entry, res, bt, tv, gt, qlog>>

\* line 80: memcpy(&bt, &(res->ut_tv), sizeof(struct timeval))
posix_memcpy(t) ==
    /\ pc[t] = "memcpy"
    /\ bt' = [bt EXCEPT ![t] = utBuf.ut_tv]
    /\ pc' = [pc EXCEPT ![t] = "endutxent"]
    /\ UNCHANGED <<osvars, utOpen, utPos, utBuf, entry, res, tv, ret, gt, qlog, clean>>

\* the found path without its endutxent()
posix_endutxent_leak(t) ==
    /\ pc[t] = "endutxent"
    /\ pc' = [pc EXCEPT ![t] = "gettimeofday"]
    /\ UNCHANGED <<osvars, utOpen, utPos, utBuf, entry, res, bt, tv, ret, gt, qlog, clean>>

\* line 81: endutxent(), then line 83 enters _calc_uptime(bt)
posix_endutxent(t) ==
    /\ pc[t] = "endutxent"
    /\ utOpen' = FALSE
    /\ utPos' = 0
    /\ pc' = [pc EXCEPT ![t] = "gettimeofday"]
    /\ clean' = Disturb(t)
    /\ UNCHANGED <<osvars, utBuf, entry, res, bt, tv, ret, gt, qlog>>

-----------------------------------------------------------------------------
(* Specifications *)

\* a step inside a call
Step(t) ==
    \/ posix_getutxid(t)
    \/ posix_endutxent_null(t)
    \/ posix_memcpy(t)
    \/ posix_endutxent(t)
    \/ osx_sysctlbyname(t)
    \/ osx_stub(t)
    \/ calc_gettimeofday(t)
    \/ calc_subtract_return(t)
    \/ Py_return(t)

\* calls from Python threads: the entry points never release the interpreter
\* lock, so a call runs from entry to return before another starts
Next ==
    \/ \E t \in Threads : HoldsGIL(t) /\ Call_uptime_posix(t)
    \/ \E t \in Threads : HoldsGIL(t) /\ Call_uptime_osx(t)
    \/ \E t \in Threads : Step(t)

Spec == Init /\ [][Next]_vars

\* the same calls made from threads that run without the interpreter lock
NextConc ==
    \/ \E t \in Threads : Call_uptime_posix(t)
    \/ \E t \in Threads : Call_uptime_osx(t)
    \/ \E t \in Threads : Step(t)

\* one recorded boot time is enough for the interleavings
InitConc == Init /\ boottime = Timeval(BigOf(0), 0)

SpecConc == InitConc /\ [][NextConc]_vars

\* _calc_uptime applied to every boot timestamp of the bounded set
InitCalc ==
    /\ Init
    /\ platform = "other"
    /\ boottime = Timeval(BigOf(0), 0)
    /\ utdb = <<>>

NextCalc ==
    \/ \E t \in Threads, b \in Timevals : HoldsGIL(t) /\ Call_calc_uptime(t, b)
    \/ \E t \in Threads : calc_gettimeofday(t)
    \/ \E t \in Threads : calc_subtract_return(t)
    \/ \E t \in Threads : Py_return(t)

SpecCalc == InitCalc /\ [][NextCalc]_vars

-----------------------------------------------------------------------------
(* What the claims are measured against *)

\* tv b is not later than tv n
TvLeq(b, n) ==
    \/ BigLess(b.tv_sec, n.tv_sec)
    \/ b.tv_sec = n.tv_sec /\ b.tv_usec <= n.tv_usec

\* the exact difference n - b in seconds: both timestamps taken as one
\* quantity sec + usec / 1000000 and subtracted, written whole + micro / 1000000
\* with 0 <= micro < 1000000 (whole is negative when b is later than n)
Elapsed(n, b) ==
    LET du == n.tv_usec - b.tv_usec
    IN  Double(BigAdd(BigSub(n.tv_sec, b.tv_sec), BigOf(du \div USEC_PER_SEC)),
               BigOf(du % USEC_PER_SEC))

\* x modulo 2^32
Mod2p32(x) == [hi |-> x.hi % (2^16), lo |-> x.lo]

\* 0 <= x < 2^32
FitsUnsigned(x) == 0 <= x.hi /\ x.hi < 2^16

\* the same double with the microseconds above 999999 carried into the whole
\* (long division of a 32-bit micro by 1000000, one byte at a time)
Canon(d) ==
    LET t1 == d.micro.hi * 256 + (d.micro.lo \div 256)
        t2 == (t1 % USEC_PER_SEC) * 256 + (d.micro.lo % 256)
        q == (t1 \div USEC_PER_SEC) * 256 + (t2 \div USEC_PER_SEC)
    IN  Double(BigAdd(d.whole, BigOf(q)), BigOf(t2 % USEC_PER_SEC))

IsNumber(r) == r # None /\ r # NoRet

IsNegative(r) == Canon(r).whole.hi < 0

\* the call of thread t has returned
Returned(t) == pc[t] = "done"

\* the call of thread t got the current time and has returned
Computed(t) == Returned(t) /\ gt[t] # NoTime /\ gt[t] # GettimeofdayFailed

\* the outcome of query number i of the call of thread t
FailedAt(t, i) == ~qlog[t][i].ok

QueryFailed(t, name) ==
    \E i \in 1..Len(qlog[t]) : qlog[t][i].query = name /\ FailedAt(t, i)

Asked(t, name) == \E i \in 1..Len(qlog[t]) : qlog[t][i].query = name

\* what the call of thread t returns when it runs alone against the same OS
\* data (and the same answer of the clock, once it has one)
AloneOutcomes(t) ==
    LET answers == IF gt[t] = NoTime THEN Timevals \cup {GettimeofdayFailed}
                                     ELSE {gt[t]}
        boots == MatchesAfter(utdb, 0, BOOT_TIME)
    IN  CASE entry[t] = "_uptime_posix" ->
                IF boots = {} THEN {None}
                ELSE {calc_uptime(utdb[Min(boots)].ut_tv, a) : a \in answers}
          [] entry[t] = "_uptime_osx" ->
                IF platform = "apple" /\ kern = "ok"
                THEN {calc_uptime(boottime, a) : a \in answers}
                ELSE {None}
          [] OTHER -> {ret[t]}

-----------------------------------------------------------------------------
(* The claims *)

\* C1 as stated: for every boot timestamp B and current timestamp N with
\* N >= B, _calc_uptime returns exactly N - B seconds.
C1_ExactForAllOrdered ==
    \A t \in Threads :
        Computed(t) /\ TvLeq(bt[t], gt[t])
            => Canon(ret[t]) = Elapsed(gt[t], bt[t])

\* C1 amended: for every B and N with N >= B and N - B below 2^32 seconds,
\* _calc_uptime returns exactly N - B seconds, to the microsecond; B = N gives 0.0.
C1_ExactBelowWrap ==
    \A t \in Threads :
        Computed(t) /\ TvLeq(bt[t], gt[t])
                    /\ FitsUnsigned(Elapsed(gt[t], bt[t]).whole)
            => /\ Canon(ret[t]) = Elapsed(gt[t], bt[t])
               /\ (bt[t] = gt[t] => ret[t] = Double(BigOf(0), BigOf(0)))

C1_Witness ==
    \E t \in Threads :
        /\ Computed(t) /\ TvLeq(bt[t], gt[t])
        /\ FitsUnsigned(Elapsed(gt[t], bt[t]).whole)
        /\ gt[t].tv_usec > bt[t].tv_usec
        /\ BigLess(bt[t].tv_sec, gt[t].tv_sec)
        /\ ret[t] = Double(BigOf(1), BigOf(USEC_PER_SEC \div 4))

\* C2: every call returns None or a non-negative number, whatever the OS
\* queries answer.
C2_NoneOrNonNegative ==
    \A t \in Threads :
        Returned(t) => ret[t] = None \/ (IsNumber(ret[t]) /\ ~IsNegative(ret[t]))

\* C3: in _uptime_posix, when getutxid reports no BOOT_TIME record the call
\* returns None, and the elapsed-time computation is not performed.
C3_NoRecordGivesNone ==
    \A t \in Threads :
        entry[t] = "_uptime_posix" /\ QueryFailed(t, "getutxid")
            => /\ pc[t] \in {"endutxent_null", "done"}
               /\ ~Asked(t, "gettimeofday")
               /\ bt[t] = NoTime /\ tv[t] = NoTime
               /\ (Returned(t) => ret[t] = None)

C3_Witness ==
    \E t \in Threads :
        /\ entry[t] = "_uptime_posix" /\ QueryFailed(t, "getutxid")
        /\ Returned(t) /\ ret[t] = None
        /\ Len(utdb) > 0

\* C4: in _uptime_osx, when sysctlbyname fails the call returns None; on a
\* build without the mechanism every call returns None and asks the OS nothing.
C4_SysctlFailureGivesNone ==
    \A t \in Threads :
        entry[t] = "_uptime_osx"
            => /\ QueryFailed(t, "sysctlbyname")
                    => Returned(t) /\ ret[t] = None /\ Len(qlog[t]) = 1
               /\ platform # "apple"
                    => qlog[t] = <<>> /\ (Returned(t) => ret[t] = None)

C4_Witness ==
    \E t \in Threads :
        /\ entry[t] = "_uptime_osx" /\ QueryFailed(t, "sysctlbyname")
        /\ kern = "oversize"
        /\ Returned(t) /\ ret[t] = None

\* C5: on both exit paths of _uptime_posix the accounting database is closed
\* before the call returns, so after any sequence of calls none is open.
C5_DatabaseClosedOnReturn ==
    /\ \A t \in Threads :
          entry[t] = "_uptime_posix" /\ pc[t] \in {"gettimeofday", "subtract", "done"}
              => ~utOpen
    /\ (\A t \in Threads : pc[t] \in {"idle", "done"}) => ~utOpen

C5_Witness ==
    \E t \in Threads :
        /\ entry[t] = "_uptime_posix" /\ Returned(t)
        /\ QueryFailed(t, "getutxid")
        /\ ~utOpen

\* C6: within one call a failed OS query is the last query of the call, and
\* the call then returns None.
C6_FailedQueryGivesNone ==
    \A t \in Threads :
        /\ \A i \in 1..Len(qlog[t]) : FailedAt(t, i) => i = Len(qlog[t])
        /\ Returned(t) /\ (\E i \in 1..Len(qlog[t]) : FailedAt(t, i))
              => ret[t] = None

C8_BorrowExactForAll ==
    \A t \in Threads :
        Computed(t) /\ gt[t].tv_usec < bt[t].tv_usec
            => Canon(ret[t]) = Elapsed(gt[t], bt[t])

\* C8 amended: for all B and N with N.usec < B.usec the result equals the
\* difference of the two timestamps taken as single quantities, reduced modulo
\* 2^32 seconds: the borrow neither loses nor gains a second.
C8_BorrowExactModulo ==
    \A t \in Threads :
        Computed(t) /\ gt[t].tv_usec < bt[t].tv_usec
            => Canon(ret[t]) = Double(Mod2p32(Elapsed(gt[t], bt[t]).whole),
                                      Elapsed(gt[t], bt[t]).micro)

C8_Witness ==
    \E t \in Threads :
        /\ Computed(t) /\ gt[t].tv_usec < bt[t].tv_usec
        /\ bt[t] = Timeval(BigOf(0), USEC_PER_SEC \div 2)
        /\ gt[t] = Timeval(BigOf(1), USEC_PER_SEC \div 4)
        /\ ret[t] = Double(BigOf(0), BigOf(3 * (USEC_PER_SEC \div 4)))

\* C9: after the subtraction the microsecond component of the difference is
\* in [0, 1000000), on the borrow branch and on the other.
C9_MicrosecondsNormalized ==
    \A t \in Threads :
        Computed(t) => 0 <= tv[t].tv_usec /\ tv[t].tv_usec < USEC_PER_SEC

C9_Witness ==
    \E t \in Threads :
        /\ Computed(t) /\ gt[t].tv_usec < bt[t].tv_usec
        /\ tv[t].tv_usec = 3 * (USEC_PER_SEC \div 4)

\* C10: when the boot timestamp is later than the current timestamp the
\* second delta is negative, the cast wraps it modulo 2^32, and the result is
\* (second_delta mod 2^32) + microsecond_delta / 1000000: a number, not negative.
C10_UnsignedWraparound ==
    \A t \in Threads :
        Computed(t) /\ ~TvLeq(bt[t], gt[t])
            => /\ Elapsed(gt[t], bt[t]).whole.hi < 0
               /\ IsNumber(ret[t])
               /\ ret[t] = Double(Mod2p32(Elapsed(gt[t], bt[t]).whole),
                                  Elapsed(gt[t], bt[t]).micro)
               /\ FitsUnsigned(ret[t].whole)
               /\ ~IsNegative(ret[t])

C10_Witness ==
    \E t \in Threads :
        /\ Computed(t) /\ ~TvLeq(bt[t], gt[t])
        /\ bt[t] = Timeval(BigOf(1), 0)
        /\ gt[t] = Timeval(BigOf(0), 0)
        /\ ret[t] = Double(Big(2^16 - 1, 2^16 - 1), BigOf(0))

====
